---------------------------- MODULE Spec2Model ----------------------------
(***************************************************************************)
(* A model of craters_children.py: the great-circle distance, the          *)
(* containment test, the matcher loop of ncraters_in_ncraters with main's  *)
(* result handling, and the correction pass correct_craters_in_craters.    *)
(*                                                                         *)
(* Units.  Angles are whole degrees.  Lengths (radius, distances,          *)
(* diameters) are integers in tenths of a kilometre, so the source's       *)
(* 1737.4 km is 17374 and its 10 km diameter limit is 100.  pi is the      *)
(* rational PiNum / PiDen.  The source's "dist < p_diam / 2" is written    *)
(* "2 * dist < p_diam" to stay in the integers.                            *)
(*                                                                         *)
(* Domain.  Crater centres lie on the equator (lat = 0) or at a pole       *)
(* (lat = 90 or -90), where the spherical law of cosines has an exact      *)
(* closed form in degrees (see Angle).                                     *)
(***************************************************************************)
EXTENDS Integers, Sequences, FiniteSets, TLC

VARIABLES
    robbins,          \* rows of lunar_crater_database_robbins_2018.csv
    yang,             \* rows of yang_aged_database.csv
    jsonFile,         \* content of robbins_in_yang.json, or NoFile
    csvFile,          \* content of robbins_in_yang.csv, or NoFile
    newDataFile,      \* content of new_data.json, or NoFile
    progress,         \* the progress argument of ncraters_in_ncraters
    pc,               \* position in main / correct_craters_in_craters
    err,              \* the exception that ended the run, or NoError
    parent_craters,   \* dataframe built by build_processed_craters
    child_craters,    \* dataframe built by build_processed_craters
    c_ind,            \* ncraters_in_ncraters: number of children processed
    parent_id,        \* ncraters_in_ncraters: result of the last crater_in_ncraters
    overlaps,         \* ncraters_in_ncraters: the dict, in insertion order
    printed,          \* the progress lines printed so far
    robbins_in_yang,  \* main: the two-column result dataframe
    run               \* number of the current run of the corrector

vars == << robbins, yang, jsonFile, csvFile, newDataFile, progress, pc, err,
           parent_craters, child_craters, c_ind, parent_id, overlaps,
           printed, robbins_in_yang, run >>

---------------------------------------------------------------------------
(* Bounds of the model *)

\* longest child catalog (rows of the Robbins file)
MaxChildren == 2
\* longest parent catalog (rows of the Yang file)
MaxParents == 2
\* most entries of an input mapping handed to the corrector
MaxEntries == 2
\* largest elapsed time read off the clock, in seconds
MaxElapsed == 1

---------------------------------------------------------------------------
(* Program constants *)

\* MOON_MEAN_RADIUS = 1737.4 km, in tenths of a kilometre
MOON_MEAN_RADIUS == 17374
\* np.deg2rad multiplies by pi / 180; pi is taken as PiNum / PiDen
PiNum == 355
PiDen == 113
\* the progress line is printed when c_ind % 1000 == 1
ProgressEvery == 1000
\* robbins_craters["DIAM_CIRC_IMG"] < 10 (km), in tenths of a kilometre
ChildDiamLimit == 100

\* "return None" of crater_in_ncraters; crater identifiers are never negative
None == -1
\* a file that does not exist
NoFile == [exists |-> FALSE, content |-> << >>]
File(c) == [exists |-> TRUE, content |-> c]
NoError == "NoError"

---------------------------------------------------------------------------
(* Input catalogs *)

\* Child craters a Robbins row can describe: at the origin, one degree east
\* of it, at the north pole, and one at the origin too large to be a child.
ChildRecSeq ==
    << [lon |-> 0, lat |-> 0,  diam |-> 50],
       [lon |-> 1, lat |-> 0,  diam |-> 50],
       [lon |-> 0, lat |-> 90, diam |-> 50],
       [lon |-> 0, lat |-> 0,  diam |-> 100] >>

\* Parent craters a Yang row can describe.  One degree of arc is 303 tenths
\* of a kilometre, so a diameter of 606 puts a centre one degree away exactly
\* on the rim, and a diameter of 1000 puts a centre two degrees away between
\* the radius (500) and the diameter.  Yang longitudes run over [-180, 180).
ParentRecSeq ==
    << [lon |-> 0,  lat |-> 0, diam |-> 606,  age |-> 1],
       [lon |-> 0,  lat |-> 0, diam |-> 1000, age |-> 2],
       [lon |-> -1, lat |-> 0, diam |-> 1000, age |-> 3] >>

\* The ID column of the Yang file numbers its rows from 0 or from 1.
FirstIds == {0, 1}

IndexSeqs(n, m) == UNION { [1..k -> 1..n] : k \in 0..m }

RobbinsRow(i, r) ==
    [CRATER_ID |-> i, LON_CIRC_IMG |-> r.lon, LAT_CIRC_IMG |-> r.lat,
     DIAM_CIRC_IMG |-> r.diam]

YangRow(i, r) ==
    [ID |-> i, Lon |-> r.lon, Lat |-> r.lat, Diam_km |-> r.diam, Age |-> r.age]

RobbinsFiles ==
    { [i \in 1..Len(s) |-> RobbinsRow(i, ChildRecSeq[s[i]])] :
        s \in IndexSeqs(Len(ChildRecSeq), MaxChildren) }

YangFiles ==
    { [i \in 1..Len(s) |-> YangRow(f + i - 1, ParentRecSeq[s[i]])] :
        s \in IndexSeqs(Len(ParentRecSeq), MaxParents), f \in FirstIds }

---------------------------------------------------------------------------
(* Pure functions *)

Abs(x) == IF x < 0 THEN -x ELSE x

\* bool_to_deg and the column update of correct_lon_column, on one column
correct_lon_column(df, lon_name) ==
    [i \in 1..Len(df) |->
        [df[i] EXCEPT ![lon_name] = @ + (IF @ < 0 THEN 360 ELSE 0)]]

\* arccos(sin(a_lat) sin(b_lat) + cos(a_lat) cos(b_lat) cos(a_lon - b_lon)),
\* in degrees.  With a point at a pole the sum is sin of the other latitude
\* up to sign; with both points on the equator it is cos(a_lon - b_lon),
\* whose arccos folds the longitude difference into [0, 180].
Angle(a_lon, a_lat, b_lon, b_lat) ==
    IF a_lat = 90 THEN 90 - b_lat
    ELSE IF a_lat = -90 THEN 90 + b_lat
    ELSE IF b_lat = 90 THEN 90 - a_lat
    ELSE IF b_lat = -90 THEN 90 + a_lat
    ELSE LET d == Abs(a_lon - b_lon) % 360
         IN  IF d > 180 THEN 360 - d ELSE d

\* angle * radius, the angle converted from degrees to radians
great_cirlce_distance(a_lon, a_lat, b_lon, b_lat) ==
    (Angle(a_lon, a_lat, b_lon, b_lat) * PiNum * MOON_MEAN_RADIUS)
        \div (180 * PiDen)

\* the test with the diameter in place of the radius: dist < p_diam
crater_in_crater_diameter(c_lon, c_lat, p_lon, p_lat, p_diam) ==
    great_cirlce_distance(c_lon, c_lat, p_lon, p_lat) < p_diam

\* dist < p_diam / 2
crater_in_crater(c_lon, c_lat, p_lon, p_lat, p_diam) ==
    2 * great_cirlce_distance(c_lon, c_lat, p_lon, p_lat) < p_diam

\* the id of the first row of p_df that contains the point, or None
RECURSIVE ScanParents(_, _, _, _)
ScanParents(c_lon, c_lat, p_df, i) ==
    IF i > Len(p_df) THEN None
    ELSE IF crater_in_crater(c_lon, c_lat, p_df[i].lon, p_df[i].lat, p_df[i].diam)
         THEN p_df[i].id
         ELSE ScanParents(c_lon, c_lat, p_df, i + 1)

crater_in_ncraters(c_lon, c_lat, p_df) == ScanParents(c_lon, c_lat, p_df, 1)

\* Python's truth value of what crater_in_ncraters returns: None and 0 are
\* false
Truthy(x) == x # None /\ x # 0

---------------------------------------------------------------------------
(* Dicts in insertion order: sequences of [key, val] with distinct keys *)

Keys(d) == { d[i].key : i \in 1..Len(d) }

Get(d, k) == (CHOOSE e \in { d[i] : i \in 1..Len(d) } : e.key = k).val

\* d[k].add(c) on a defaultdict(set): a missing key is created on access
SetAdd(d, k, c) ==
    IF k \in Keys(d)
    THEN [i \in 1..Len(d) |->
            IF d[i].key = k THEN [d[i] EXCEPT !.val = @ \cup {c}] ELSE d[i]]
    ELSE Append(d, [key |-> k, val |-> {c}])

\* a matcher without the early return of crater_in_ncraters: child c goes
\* into the set of every parent that contains it
RECURSIVE AddUnderEvery(_, _, _)
AddUnderEvery(d, c, i) ==
    IF i > Len(parent_craters) THEN d
    ELSE LET x == CHOOSE r \in { child_craters[j] : j \in 1..Len(child_craters) } :
                      r.id = c
             p == parent_craters[i]
         IN  AddUnderEvery(
                 IF crater_in_crater(x.lon, x.lat, p.lon, p.lat, p.diam)
                 THEN SetAdd(d, p.id, c) ELSE d,
                 c, i + 1)

AddOverlapEveryParent(d, k, c) == AddUnderEvery(d, c, 1)

\* overlaps[parent_id].add(c_crater.id)
AddOverlap(d, k, c) == SetAdd(d, k, c)

---------------------------------------------------------------------------
(* build_processed_craters *)

BuildChildren(rows) ==
    LET lt_10(r) == r.DIAM_CIRC_IMG < ChildDiamLimit
        kept == SelectSeq(rows, lt_10)
    IN  [i \in 1..Len(kept) |->
            [id |-> kept[i].CRATER_ID, lon |-> kept[i].LON_CIRC_IMG,
             lat |-> kept[i].LAT_CIRC_IMG, diam |-> kept[i].DIAM_CIRC_IMG]]

BuildParents(rows) ==
    [i \in 1..Len(rows) |->
        [id |-> rows[i].ID, lon |-> rows[i].Lon, lat |-> rows[i].Lat,
         diam |-> rows[i].Diam_km, age |-> rows[i].Age]]

---------------------------------------------------------------------------
(* main *)

\* main passes progress=True; False is the default of ncraters_in_ncraters,
\* and both calls are modelled.  robbins_in_yang.json may be left over from
\* an earlier run or not exist.
Init ==
    /\ robbins \in RobbinsFiles
    /\ yang \in YangFiles
    /\ jsonFile \in {NoFile, File(<< >>)}
    /\ csvFile = NoFile
    /\ newDataFile = NoFile
    /\ progress \in BOOLEAN
    /\ pc = "start"
    /\ err = NoError
    /\ parent_craters = << >>
    /\ child_craters = << >>
    /\ c_ind = 0
    /\ parent_id = None
    /\ overlaps = << >>
    /\ printed = << >>
    /\ robbins_in_yang = [yang_id |-> << >>, robbins_ids |-> << >>]
    /\ run = 1

\* parent_craters, child_craters = build_processed_craters()
Build ==
    /\ pc = "start"
    /\ parent_craters' = BuildParents(yang)
    /\ child_craters' = BuildChildren(robbins)
    /\ pc' = "call"
    /\ UNCHANGED << robbins, yang, jsonFile, csvFile, newDataFile, progress,
                    err, c_ind, parent_id, overlaps, printed,
                    robbins_in_yang, run >>

\* ncraters_in_ncraters, before the loop
MatchBegin ==
    /\ pc = "call"
    /\ overlaps' = << >>
    /\ c_ind' = 0
    /\ pc' = "match"
    /\ UNCHANGED << robbins, yang, jsonFile, csvFile, newDataFile, progress,
                    err, parent_craters, child_craters, parent_id, printed,
                    robbins_in_yang, run >>

\* the progress line printed from the first iteration on: c_ind % 1000 == 0
ProgressDueFromZero(i) == progress /\ i % ProgressEvery = 0

\* the condition under which an iteration prints its progress line
ProgressDue(i) == progress /\ i % ProgressEvery = 1

\* The progress line: percent is the fraction (100 * c_ind) / len(c_df);
\* rate = t_elapsed / percent and t_est = (100 - percent) * rate, so
\* t_est = (100 * len - 100 * c_ind) * t_elapsed / (100 * c_ind).
ProgressLine(i, n, t) ==
    [c_ind |-> i, total |-> n, percent |-> (100 * i) \div n, elapsed |-> t,
     eta |-> ((100 * n - 100 * i) * t) \div (100 * i)]

\* ncraters_in_ncraters, one iteration of the loop over c_df
MatchStep ==
    /\ pc = "match"
    /\ c_ind < Len(child_craters)
    /\ LET c_crater == child_craters[c_ind + 1]
           p == crater_in_ncraters(c_crater.lon, c_crater.lat, parent_craters)
       IN  /\ parent_id' = p
           /\ overlaps' = IF Truthy(p) THEN AddOverlap(overlaps, p, c_crater.id)
                          ELSE overlaps
    /\ IF ProgressDue(c_ind)
       THEN IF 100 * c_ind = 0
            THEN \* rate = t_elapsed / percent with percent = 0
                 /\ pc' = "error"
                 /\ err' = "ZeroDivisionError"
                 /\ UNCHANGED << c_ind, printed >>
            ELSE \E t \in 0..MaxElapsed :
                 /\ printed' = Append(printed,
                                  ProgressLine(c_ind, Len(child_craters), t))
                 /\ c_ind' = c_ind + 1
                 /\ UNCHANGED << pc, err >>
       ELSE /\ c_ind' = c_ind + 1
            /\ UNCHANGED << pc, err, printed >>
    /\ UNCHANGED << robbins, yang, jsonFile, csvFile, newDataFile, progress,
                    parent_craters, child_craters, robbins_in_yang, run >>

\* ncraters_in_ncraters: return overlaps
MatchReturn ==
    /\ pc = "match"
    /\ c_ind = Len(child_craters)
    /\ pc' = "table"
    /\ UNCHANGED << robbins, yang, jsonFile, csvFile, newDataFile, progress,
                    err, parent_craters, child_craters, c_ind, parent_id,
                    overlaps, printed, robbins_in_yang, run >>

\* yang_ids, robbins_ids = zip(*results.items()), and the two columns
Table ==
    /\ pc = "table"
    /\ IF overlaps = << >>
       THEN \* zip() yields nothing: not enough values to unpack
            /\ pc' = "error"
            /\ err' = "ValueError"
            /\ UNCHANGED robbins_in_yang
       ELSE /\ robbins_in_yang' =
                 [yang_id |-> [i \in 1..Len(overlaps) |-> overlaps[i].key],
                  robbins_ids |-> [i \in 1..Len(overlaps) |-> overlaps[i].val]]
            /\ pc' = "csv"
            /\ UNCHANGED err
    /\ UNCHANGED << robbins, yang, jsonFile, csvFile, newDataFile, progress,
                    parent_craters, child_craters, c_ind, parent_id,
                    overlaps, printed, run >>

\* robbins_in_yang.to_csv(index=False) written to robbins_in_yang.csv
WriteCsv ==
    /\ pc = "csv"
    /\ csvFile' = File([i \in 1..Len(robbins_in_yang.yang_id) |->
                      [yang_id |-> robbins_in_yang.yang_id[i],
                       robbins_ids |-> robbins_in_yang.robbins_ids[i]]])
    /\ pc' = "json"
    /\ UNCHANGED << robbins, yang, jsonFile, newDataFile, progress, err,
                    parent_craters, child_craters, c_ind, parent_id,
                    overlaps, printed, robbins_in_yang, run >>

\* {k: list(v) for k, v in robbins_in_yang.items()}: DataFrame.items() yields
\* (column name, column), so the keys are the two column names.  Each list
\* element carries its Python type.
robbins_in_yang_no_set ==
    << [key |-> "yang_id",
        val |-> [i \in 1..Len(robbins_in_yang.yang_id) |->
                    [type |-> "int64", v |-> {robbins_in_yang.yang_id[i]}]]],
       [key |-> "robbins_ids",
        val |-> [i \in 1..Len(robbins_in_yang.robbins_ids) |->
                    [type |-> "set", v |-> robbins_in_yang.robbins_ids[i]]]] >>

\* json.dumps raises TypeError on a value that is no str, int, float, bool,
\* None, list or dict
JsonSerializable(d) ==
    \A i \in 1..Len(d) : \A j \in 1..Len(d[i].val) :
        d[i].val[j].type \in {"str", "int", "float", "bool"}

\* with open("robbins_in_yang.json") as file: file.write(json.dumps(...)).
\* The file is opened for reading; the argument is evaluated before the call.
WriteJson ==
    /\ pc = "json"
    /\ pc' = "error"
    /\ err' = IF ~jsonFile.exists THEN "FileNotFoundError"
              ELSE IF ~JsonSerializable(robbins_in_yang_no_set) THEN "TypeError"
              ELSE "UnsupportedOperation"
    /\ UNCHANGED << robbins, yang, jsonFile, csvFile, newDataFile, progress,
                    parent_craters, child_craters, c_ind, parent_id,
                    overlaps, printed, robbins_in_yang, run >>

Next ==
    \/ Build
    \/ MatchBegin
    \/ MatchStep
    \/ MatchReturn
    \/ Table
    \/ WriteCsv
    \/ WriteJson

Spec == Init /\ [][Next]_vars

---------------------------------------------------------------------------
(* Keyed documents: JSON object keys are text *)

Digit == << "0", "1", "2", "3", "4", "5", "6", "7", "8", "9" >>

\* the decimal text json.dumps writes for an integer key
RECURSIVE str(_)
str(n) == IF n < 10 THEN Digit[n + 1]
          ELSE str(n \div 10) \o Digit[(n % 10) + 1]

\* the identifiers a key of the model can denote
IdRange == 0..(MaxParents + 1)

\* int(parent_id) raises ValueError on text that is no integer literal
IsIntText(t) == \E n \in IdRange : str(n) = t

int(t) == CHOOSE n \in IdRange : str(n) = t

Elems(list) == { list[i] : i \in 1..Len(list) }

---------------------------------------------------------------------------
(* correct_craters_in_craters *)

\* the selection inverted: lambda x: x not in c_list
list_to_dataframe_not_in(c_df, c_list) ==
    LET not_in_list(r) == r.id \notin Elems(c_list)
    IN  SelectSeq(c_df, not_in_list)

\* child_craters[child_craters["id"].map(lambda x: x in c_list)]
list_to_dataframe(c_df, c_list) ==
    LET in_list(r) == r.id \in Elems(c_list)
    IN  SelectSeq(c_df, in_list)

\* parent_craters[parent_craters["id"] == int(parent_id)]
ParentRow(p_df, n) ==
    LET has_id(r) == r.id = n
    IN  SelectSeq(p_df, has_id)

\* the matcher's strict comparison in the corrector: distance < parent_radius
WithinRadiusStrict(x, parent_lon, parent_lat, parent_diam) ==
    2 * great_cirlce_distance(x.lon, x.lat, parent_lon, parent_lat)
        < parent_diam

\* great_cirlce_distance(x["lon"], x["lat"], parent_lon, parent_lat)
\*     <= parent_radius, with parent_radius = diam / 2
WithinRadius(x, parent_lon, parent_lat, parent_diam) ==
    2 * great_cirlce_distance(x.lon, x.lat, parent_lon, parent_lat)
        <= parent_diam

\* craters_in_parent: the list it returns, or the exception it raises.
\* float() of a column that does not hold exactly one value raises TypeError.
\* On an empty child_df, DataFrame.apply gives back, depending on the pandas
\* release, an empty column (the result is the empty list) or an empty frame
\* (indexing the id column with it raises TypeError): empty_raises.
craters_in_parent(p_df, c_df, parent_id_text, c_list, empty_raises) ==
    LET child_df == list_to_dataframe(c_df, c_list)
    IN  IF ~IsIntText(parent_id_text)
        THEN [err |-> "ValueError", val |-> << >>]
        ELSE LET parent_row == ParentRow(p_df, int(parent_id_text))
             IN  IF Len(parent_row) # 1
                 THEN [err |-> "TypeError", val |-> << >>]
                 ELSE IF child_df = << >>
                 THEN [err |-> IF empty_raises THEN "TypeError" ELSE NoError,
                       val |-> << >>]
                 ELSE LET correct_rows(x) ==
                              WithinRadius(x, parent_row[1].lon,
                                           parent_row[1].lat, parent_row[1].diam)
                          rows == SelectSeq(child_df, correct_rows)
                      IN  [err |-> NoError,
                           val |-> [i \in 1..Len(rows) |-> rows[i].id]]

\* a corrector that passes over an entry whose key matches no parent record
RECURSIVE NewDataSkipMissing(_, _, _, _, _)
NewDataSkipMissing(p_df, c_df, data, i, empty_raises) ==
    IF i > Len(data) THEN [err |-> NoError, val |-> << >>]
    ELSE IF \/ ~IsIntText(data[i].key)
            \/ ParentRow(p_df, int(data[i].key)) = << >>
         THEN NewDataSkipMissing(p_df, c_df, data, i + 1, empty_raises)
         ELSE LET r == craters_in_parent(p_df, c_df, data[i].key, data[i].val,
                                         empty_raises)
                  rest == NewDataSkipMissing(p_df, c_df, data, i + 1, empty_raises)
              IN  IF r.err # NoError THEN [err |-> r.err, val |-> << >>]
                  ELSE [err |-> rest.err,
                        val |-> << [key |-> data[i].key, val |-> r.val] >>
                                \o rest.val]

\* new_data = {p_id: craters_in_parent(p_id, c_list) for ... in data.items()}:
\* the entries computed in order, up to the first exception
RECURSIVE NewData(_, _, _, _, _)
NewData(p_df, c_df, data, i, empty_raises) ==
    IF i > Len(data) THEN [err |-> NoError, val |-> << >>]
    ELSE LET r == craters_in_parent(p_df, c_df, data[i].key, data[i].val,
                                    empty_raises)
         IN  IF r.err # NoError THEN [err |-> r.err, val |-> << >>]
             ELSE LET rest == NewData(p_df, c_df, data, i + 1, empty_raises)
                  IN  [err |-> rest.err,
                       val |-> << [key |-> data[i].key, val |-> r.val] >>
                               \o rest.val]

\* {p_id: c_list for p_id, c_list in new_data.items() if len(c_list) > 0}
DropEmpty(d) ==
    LET non_empty(e) == Len(e.val) > 0
    IN  SelectSeq(d, non_empty)

\* Input mappings: at most MaxEntries entries, their keys among the texts of
\* the identifiers and the column name "yang_id", their lists among the
\* identifiers of the rows of the Robbins file.
KeyTextSeq == [i \in 1..(MaxParents + 2) |->
                  IF i = MaxParents + 2 THEN "yang_id" ELSE str(i - 1)]

Increasing(s) == \A i \in 1..(Len(s) - 1) : s[i] < s[i + 1]

IncreasingSeqs(n, lo, hi) ==
    { s \in UNION { [1..k -> 1..n] : k \in lo..hi } : Increasing(s) }

ChildIdLists == IncreasingSeqs(MaxChildren, 0, MaxChildren)

InputMappings ==
    UNION { [1..Len(ks) -> ChildIdLists] \X {ks} :
              ks \in IncreasingSeqs(Len(KeyTextSeq), 0, MaxEntries) }

Mapping(m) ==
    [i \in 1..Len(m[2]) |-> [key |-> KeyTextSeq[m[2][i]], val |-> m[1][i]]]

\* The catalogs of the corrector's runs have their rows in the order of
\* ChildRecSeq and ParentRecSeq; the parent catalog is full-length.
InitCorrect ==
    /\ \E s \in IncreasingSeqs(Len(ChildRecSeq), 0, MaxChildren) :
         robbins = [i \in 1..Len(s) |-> RobbinsRow(i, ChildRecSeq[s[i]])]
    /\ \E s \in IncreasingSeqs(Len(ParentRecSeq), MaxParents, MaxParents) :
         \E f \in FirstIds :
           yang = [i \in 1..Len(s) |-> YangRow(f + i - 1, ParentRecSeq[s[i]])]
    /\ jsonFile \in {NoFile} \cup { File(Mapping(m)) : m \in InputMappings }
    /\ csvFile = NoFile
    /\ newDataFile = NoFile
    /\ progress = FALSE
    /\ pc = "correct"
    /\ err = NoError
    /\ parent_craters = << >>
    /\ child_craters = << >>
    /\ c_ind = 0
    /\ parent_id = None
    /\ overlaps = << >>
    /\ printed = << >>
    /\ robbins_in_yang = [yang_id |-> << >>, robbins_ids |-> << >>]
    /\ run = 1

\* correct_craters_in_craters, from build_processed_craters to the write of
\* new_data.json
Correct ==
    /\ pc = "correct"
    /\ parent_craters' = BuildParents(yang)
    /\ child_craters' = BuildChildren(robbins)
    /\ IF ~jsonFile.exists
       THEN /\ pc' = "error"
            /\ err' = "FileNotFoundError"
            /\ UNCHANGED newDataFile
       ELSE \E empty_raises \in BOOLEAN :
            LET new_data == NewData(parent_craters', child_craters',
                                    jsonFile.content, 1, empty_raises)
            IN  IF new_data.err # NoError
                THEN /\ pc' = "error"
                     /\ err' = new_data.err
                     /\ UNCHANGED newDataFile
                ELSE /\ pc' = "done"
                     /\ newDataFile' = File(DropEmpty(new_data.val))
                     /\ UNCHANGED err
    /\ UNCHANGED << robbins, yang, jsonFile, csvFile, progress, c_ind,
                    parent_id, overlaps, printed, robbins_in_yang, run >>

\* The corrector run again on its own output: new_data.json takes the place
\* of robbins_in_yang.json, which is the file the corrector reads.
Rerun ==
    /\ pc = "done"
    /\ run = 1
    /\ jsonFile' = newDataFile
    /\ newDataFile' = NoFile
    /\ pc' = "correct"
    /\ run' = 2
    /\ UNCHANGED << robbins, yang, csvFile, progress, err, parent_craters,
                    child_craters, c_ind, parent_id, overlaps, printed,
                    robbins_in_yang >>

NextCorrect ==
    \/ Correct
    \/ Rerun

SpecCorrect == InitCorrect /\ [][NextCorrect]_vars

---------------------------------------------------------------------------
(* The matcher's result, computed without the loop's side effects *)

\* ncraters_in_ncraters with progress=False: the mapping it returns
RECURSIVE MatchFrom(_, _, _, _)
MatchFrom(c_df, p_df, i, acc) ==
    IF i > Len(c_df) THEN acc
    ELSE LET p == crater_in_ncraters(c_df[i].lon, c_df[i].lat, p_df)
         IN  MatchFrom(c_df, p_df, i + 1,
                       IF Truthy(p) THEN AddOverlap(acc, p, c_df[i].id) ELSE acc)

ncraters_in_ncraters(c_df, p_df) == MatchFrom(c_df, p_df, 1, << >>)

---------------------------------------------------------------------------
(* Vocabulary of the properties *)

Rows(df) == { df[i] : i \in 1..Len(df) }

\* twice the distance between two crater centres
TwiceDist(c, p) == 2 * great_cirlce_distance(c.lon, c.lat, p.lon, p.lat)

\* the positions of the parents whose footprint strictly contains c's centre
Containing(c) ==
    { i \in 1..Len(parent_craters) : TwiceDist(c, parent_craters[i]) < parent_craters[i].diam }

Min(S) == CHOOSE x \in S : \A y \in S : x <= y

\* the children recorded under parent identifier k
ChildrenOf(k) == IF k \in Keys(overlaps) THEN Get(overlaps, k) ELSE {}

\* ncraters_in_ncraters has returned to main
MatchReturned ==
    \/ pc \in {"table", "csv", "json"}
    \/ pc = "error" /\ err # "ZeroDivisionError"

\* main has ended
MainEnded == pc = "error"

---------------------------------------------------------------------------
(* Properties of main and the matcher, checked under Spec *)

\* C1.  Once ncraters_in_ncraters has returned, each child contained in at
\* least one parent is in the set of the first parent, in catalog order, that
\* contains it, whatever that parent's identifier, and each child contained
\* in no parent is in no set.
C1_FirstMatch ==
    MatchReturned =>
        \A c \in Rows(child_craters) :
            IF Containing(c) = {}
            THEN \A k \in Keys(overlaps) : c.id \notin Get(overlaps, k)
            ELSE c.id \in ChildrenOf(parent_craters[Min(Containing(c))].id)

\* the position in the parent catalog at which the scan for the child just
\* processed stopped: that of the parent whose id was returned, or one past
\* the end
StoppedAt ==
    IF parent_id = None THEN Len(parent_craters) + 1
    ELSE Min({ i \in 1..Len(parent_craters) : parent_craters[i].id = parent_id })

\* C2.  The containment test is strict and uses the radius: for the child the
\* loop has just processed, the parent the scan stopped at is at a distance
\* strictly below half its diameter, and every parent the scan passed over is
\* at a distance of at least half its diameter; so a child exactly on a rim,
\* or between a parent's radius and its diameter, is not contained in it.
C2_StrictRadius ==
    c_ind > 0 =>
        LET c == child_craters[c_ind]
        IN  \A i \in 1..Len(parent_craters) :
                /\ i = StoppedAt => TwiceDist(c, parent_craters[i]) < parent_craters[i].diam
                /\ i < StoppedAt => TwiceDist(c, parent_craters[i]) >= parent_craters[i].diam

\* C2's case: the child just processed lies exactly on the rim of one parent
\* and between the radius and the diameter of another, both passed over.
C2_Witness ==
    /\ c_ind > 0
    /\ parent_id = None
    /\ \E i \in 1..Len(parent_craters) :
         TwiceDist(child_craters[c_ind], parent_craters[i]) = parent_craters[i].diam
    /\ \E i \in 1..Len(parent_craters) :
         /\ TwiceDist(child_craters[c_ind], parent_craters[i]) > parent_craters[i].diam
         /\ TwiceDist(child_craters[c_ind], parent_craters[i]) < 2 * parent_craters[i].diam

\* C4.  In every state of the matcher and in the mapping it returns, no
\* child identifier is a member of two parents' sets.
C4_ChildInOneSet ==
    \A i, j \in 1..Len(overlaps) :
        i # j => /\ overlaps[i].key # overlaps[j].key
                 /\ overlaps[i].val \cap overlaps[j].val = {}

\* C4's case: a child inside two overlapping parents has been recorded, next
\* to a second key of the mapping.
C4_Witness ==
    /\ Len(overlaps) > 1
    /\ \E c \in Rows(child_craters) :
         /\ Cardinality(Containing(c)) > 1
         /\ \E k \in Keys(overlaps) : c.id \in Get(overlaps, k)

\* C7.  Once main has ended, robbins_in_yang.json reloaded has one key per
\* parent identifier of the mapping and under each key exactly the child
\* identifiers of that parent's set.
C7_JsonRoundTrip ==
    (MainEnded /\ overlaps # << >>) =>
        /\ jsonFile.exists
        /\ Keys(jsonFile.content) = { str(k) : k \in Keys(overlaps) }
        /\ \A k \in Keys(overlaps) :
             str(k) \in Keys(jsonFile.content)
                 => Elems(Get(jsonFile.content, str(k))) = Get(overlaps, k)

\* C8.  With or without progress reporting the matcher never divides by a
\* zero percentage, and what it returns is the mapping of the call without
\* progress reporting.
C8_ProgressAdvisory ==
    /\ err # "ZeroDivisionError"
    /\ pc = "table" => overlaps = ncraters_in_ncraters(child_craters, parent_craters)

\* C8's case: a call with progress=True over a catalog of two or more
\* children, some of them matched, has printed a progress line and returned.
C8_Witness ==
    /\ progress
    /\ pc = "table"
    /\ printed # << >>
    /\ overlaps # << >>

\* C9.  Every record that reaches the matcher has its longitude in [0, 360),
\* a negative source longitude having had 360 added to it.
C9_LongitudeNormalized ==
    pc \in {"match", "table"} =>
        /\ \A r \in Rows(parent_craters) \cup Rows(child_craters) :
             0 <= r.lon /\ r.lon < 360
        /\ parent_craters = correct_lon_column(BuildParents(yang), "lon")

\* C10.  When no child is contained in any parent, main gets through the
\* matcher and the construction of the tabular result without an error, and
\* the mapping is empty.
C10_EmptyResultNoError ==
    (\A c \in Rows(BuildChildren(robbins)) :
        \A p \in Rows(BuildParents(yang)) : TwiceDist(c, p) >= p.diam)
    => /\ err \notin {"ZeroDivisionError", "ValueError"}
       /\ MatchReturned => overlaps = << >>

---------------------------------------------------------------------------
(* Properties of the corrector, checked under SpecCorrect *)

\* the child identifiers of the list under key k of input mapping d whose
\* catalog record lies within the radius of the parent k names
KeptOf(d, k) ==
    { c \in Elems(Get(d, k)) :
        \E x \in Rows(child_craters) : \E p \in Rows(parent_craters) :
            /\ x.id = c
            /\ IsIntText(k) /\ p.id = int(k)
            /\ TwiceDist(x, p) <= p.diam }

\* C3.  The mapping the corrector writes has, for each input parent, exactly
\* the input children at a distance of at most half the parent's diameter;
\* a parent left with no child is no key of it, and it has no other key.
C3_FilterRule ==
    pc = "done" =>
        /\ newDataFile.exists
        /\ Keys(newDataFile.content) \subseteq Keys(jsonFile.content)
        /\ \A k \in Keys(jsonFile.content) :
             IF KeptOf(jsonFile.content, k) = {}
             THEN k \notin Keys(newDataFile.content)
             ELSE /\ k \in Keys(newDataFile.content)
                  /\ Elems(Get(newDataFile.content, k)) = KeptOf(jsonFile.content, k)

\* C3's case: a run over two input parents has kept a child lying exactly on
\* a rim and has dropped a parent whose children all lie outside.
C3_Witness ==
    /\ pc = "done"
    /\ run = 1
    /\ \E k \in Keys(newDataFile.content) :
         \E x \in Rows(child_craters) : \E p \in Rows(parent_craters) :
            /\ x.id \in Elems(Get(newDataFile.content, k))
            /\ p.id = int(k)
            /\ TwiceDist(x, p) = p.diam
    /\ \E k \in Keys(jsonFile.content) :
         /\ k \notin Keys(newDataFile.content)
         /\ Get(jsonFile.content, k) # << >>

\* the keys of input mapping d that match no record of the parent catalog
Dangling(d) ==
    { k \in Keys(d) :
        ~IsIntText(k) \/ \A p \in Rows(BuildParents(yang)) : p.id # int(k) }

\* C5.  When a key of the input mapping matches no record of the parent
\* catalog, the run of the corrector ends in an error and writes no mapping.
C5_DanglingParentFatal ==
    (pc # "correct" /\ jsonFile.exists /\ Dangling(jsonFile.content) # {}) =>
        /\ pc = "error"
        /\ err # NoError
        /\ ~newDataFile.exists

\* C5's case: a run has ended on an input with a dangling numeric key whose
\* child list is empty, the one a filter would drop without a trace.
C5_Witness ==
    /\ pc = "error"
    /\ \E k \in Dangling(jsonFile.content) :
         IsIntText(k) /\ Get(jsonFile.content, k) = << >>

\* C6.  The corrector run on its own output succeeds and writes a mapping
\* equal to that output.
C6_Idempotent ==
    (run = 2 /\ pc # "correct") =>
        /\ pc = "done"
        /\ newDataFile = jsonFile

\* C6's case: the second run has ended on a first output of two entries.
C6_Witness ==
    /\ run = 2
    /\ pc = "done"
    /\ Len(jsonFile.content) > 1

===========================================================================
